---------------------------- MODULE Spec2Model ----------------------------
(***************************************************************************)
(* Survey reporting pipeline: column typing (data_processing.py), the      *)
(* batch script (data_analysis.py) and the chart renderer                  *)
(* (visualization.py).                                                     *)
(*                                                                         *)
(* Cells are strings: "NaN" is the missing value, "0".."5" are the integer *)
(* cells, every other string is a text cell.  A column is a record         *)
(* [dtype, categories, ordered, vals]; a table (DataFrame) is a record     *)
(* [n, col] with col a function from column names to columns.              *)
(***************************************************************************)
EXTENDS Integers, Sequences, FiniteSets, TLC

VARIABLES
    heap,         \* DataFrame objects: a function from the ids in use to tables
    survey_data,  \* reference held by the name survey_data (an object id or None)
    masters_df,   \* reference held by the name masters_df
    mapping_df,   \* the column mapping: Some(sequence of entries), or Nothing
    doc,          \* the styling document: Some(sequence of lines), or Nothing (no file)
    dirs,         \* directories that exist on disk
    files,        \* image files written so far
    figures,      \* number of pyplot figures currently open
    chart,        \* what the last request drew: Some(record), or Nothing
    returned,     \* what the last direct call of get_brand_colors returned
    outcome,      \* the last call: its name, its arguments, how it ended, what it printed
    disk,         \* the two input sheets: [data, mapping], each Some(content) or Nothing
    pc            \* position of the batch script

vars == << heap, survey_data, masters_df, mapping_df, doc, dirs, files,
           figures, chart, returned, outcome, disk, pc >>

None == "None"
NaN == "NaN"

\* Optional values: Python's None is Nothing, a value x is Some(x).
Nothing == << >>
Some(x) == << x >>
The(o) == o[1]

(***************************************************************************)
(* Bounds of the model.                                                    *)
(***************************************************************************)
MaxRows == 2
ChartRows == 3
MaxLines == 6
ShortDocLines == 3
MaxFigures == 2

-----------------------------------------------------------------------------
(* Generic sequence helpers.                                               *)

Range(s) == { s[i] : i \in 1..Len(s) }

RECURSIVE SeqsUpTo(_, _)
SeqsUpTo(S, n) ==
    IF n = 0 THEN { <<>> }
    ELSE LET shorter == SeqsUpTo(S, n - 1)
         IN  shorter \cup { Append(s, x) : s \in { t \in shorter : Len(t) = n - 1 }, x \in S }

Take(s, n) == SubSeq(s, 1, IF Len(s) < n THEN Len(s) ELSE n)

\* Positions of s kept by the predicate, in order.
RECURSIVE KeptPositions(_, _, _)
KeptPositions(keep, i, n) ==
    IF i > n THEN <<>>
    ELSE IF keep[i] THEN <<i>> \o KeptPositions(keep, i + 1, n)
         ELSE KeptPositions(keep, i + 1, n)

\* The distinct elements of s in order of first appearance.
RECURSIVE Distinct(_)
Distinct(s) ==
    IF s = <<>> THEN <<>>
    ELSE LET front == Distinct(SubSeq(s, 1, Len(s) - 1))
             last == s[Len(s)]
         IN  IF last \in Range(front) THEN front ELSE Append(front, last)

Occurrences(s, v) == Cardinality({ i \in 1..Len(s) : s[i] = v })

\* Insertion of x into a sequence sorted by the key function, after equal keys.
RECURSIVE InsertBy(_, _, _)
InsertBy(s, x, key) ==
    IF s = <<>> THEN <<x>>
    ELSE IF key[x] < key[s[1]] THEN <<x>> \o s
         ELSE <<s[1]>> \o InsertBy(Tail(s), x, key)

\* Stable sort of s by ascending key.
RECURSIVE SortBy(_, _)
SortBy(s, key) ==
    IF s = <<>> THEN <<>>
    ELSE InsertBy(SortBy(SubSeq(s, 1, Len(s) - 1), key), s[Len(s)], key)

-----------------------------------------------------------------------------
(* Cells and columns.                                                      *)

\* Python's ordering of the cells used here: numbers by value, text by code point.
SortedCells ==
    << "0", "1", "2", "3", "4", "5",
       "18-26", "27-40", "61+", "Agree", "Disagree", "Maybe", "Neutral", "No",
       "Strongly Agree", "Strongly Disagree", "Yes" >>

NumberCells == { "0", "1", "2", "3", "4", "5" }

CellRank == [ v \in Range(SortedCells) |->
                CHOOSE i \in 1..Len(SortedCells) : SortedCells[i] = v ]

CellNumber == [ v \in NumberCells |-> CellRank[v] - 1 ]

Column(dtype, categories, ordered, vals) ==
    [ dtype |-> dtype, categories |-> categories, ordered |-> ordered, vals |-> vals ]

NonMissing(vals) == SelectSeq(vals, LAMBDA v : v # NaN)

\* dtype pandas infers for a freshly read column.
InferDtype(vals) ==
    IF vals = <<>> \/ \E i \in 1..Len(vals) : vals[i] \notin NumberCells \cup {NaN}
    THEN "object"
    ELSE IF NaN \in Range(vals) THEN "float64"
    ELSE "int64"

RawColumn(vals) == Column(InferDtype(vals), <<>>, FALSE, vals)

Columns(df) == DOMAIN df.col


Table(n, col) == [ n |-> n, col |-> col ]

\* df[name] = column: the assignment of one column of a table.
SetColumn(df, name, column) ==
    Table(df.n, [ c \in Columns(df) \cup {name} |-> IF c = name THEN column ELSE df.col[c] ])

-----------------------------------------------------------------------------
(* Type coercion (data_processing.py).                                     *)

ordered_likert_columns ==
    { "support_1st_place_medals_masters", "rating_promotion_governance",
      "rating_accessibility", "rating_positive_experience",
      "rating_high_performance_pathways" }

category_order ==
    << "Strongly Disagree", "Disagree", "Neutral", "Agree", "Strongly Agree" >>

\* {i + 1: label for i, label in enumerate(category_order)}
likert_mapping ==
    [ k \in { v \in NumberCells : CellNumber[v] \in 1..Len(category_order) } |->
        category_order[CellNumber[k]] ]

\* Series.map(dict): a value that is no key of the dict becomes missing.
MapValues(vals, dict) ==
    [ i \in 1..Len(vals) |-> IF vals[i] \in DOMAIN dict THEN dict[vals[i]] ELSE NaN ]

\* Series.astype(CategoricalDtype(categories, ordered)): a value outside the
\* categories becomes missing.
AstypeCategories(vals, categories, ordered) ==
    Column("category", categories, ordered,
           [ i \in 1..Len(vals) |-> IF vals[i] \in Range(categories) THEN vals[i] ELSE NaN ])

\* df[col].map(mapping).astype(cat_dtype)
likert_column(column) ==
    AstypeCategories(MapValues(column.vals, likert_mapping), category_order, TRUE)

\* pd.to_numeric(series, errors="coerce"): what does not parse becomes missing.
to_numeric(column) ==
    LET vals == [ i \in 1..Len(column.vals) |->
                    IF column.vals[i] \in NumberCells THEN column.vals[i] ELSE NaN ]
    IN  Column(InferDtype(vals), <<>>, FALSE, vals)

NullableIntTypes == { "Int8", "Int16", "Int32", "Int64" }
PlainIntTypes == { "int8", "int16", "int32", "int64" }
StringTypes == { "object", "str", "string" }

\* pd.api.types.is_string_dtype(dtype), handed the type's name: the name is read
\* as a dtype, and only the string and object dtypes answer True ("Int8" names
\* the nullable integer dtype; a name that is no dtype answers False).
is_string_dtype(dtype) == dtype \in StringTypes

\* str.startswith("Int")
startswith_Int(dtype) == dtype \in NullableIntTypes \cup { "Integer" }

Done(column) == [ ok |-> TRUE, column |-> column ]
Raised(column) == [ ok |-> FALSE, column |-> column ]

\* Series.astype(dtype) for a dtype given by name; Raised when pandas raises.
astype(column, dtype) ==
    LET vals == column.vals
        numeric == \A i \in 1..Len(vals) : vals[i] \in NumberCells \cup {NaN}
    IN  CASE dtype = "category" ->
               IF column.dtype = "category" THEN Done(column)
               ELSE Done(Column("category", SortBy(Distinct(NonMissing(vals)), CellRank),
                                FALSE, vals))
          [] dtype \in NullableIntTypes ->
               IF numeric THEN Done(Column(dtype, <<>>, FALSE, vals)) ELSE Raised(column)
          [] dtype \in PlainIntTypes ->
               IF numeric /\ NaN \notin Range(vals)
               THEN Done(Column(dtype, <<>>, FALSE, vals)) ELSE Raised(column)
          [] dtype = "float64" ->
               IF numeric THEN Done(Column("float64", <<>>, FALSE, vals)) ELSE Raised(column)
          [] OTHER -> Raised(column)

\* The branches of lines 69-78 (data_processing.py), 50-59 (data_analysis.py).
convert_by_type(column, dtype) ==
    IF is_string_dtype(dtype) /\ startswith_Int(dtype)
    THEN astype(to_numeric(column), dtype)
    ELSE IF dtype = "float64" THEN Done(to_numeric(column))
    ELSE astype(column, dtype)

\* The body of the try block for one column, data_processing.py.
convert_column(col_name, column, dtype) ==
    IF col_name \in ordered_likert_columns
    THEN Done(likert_column(column))
    ELSE convert_by_type(column, dtype)

\* dict(zip(mapping_df["new_name"], mapping_df["recommended_type"])) as a
\* sequence of <<name, type>>: keys in order of first appearance, the last
\* type given for a name.
type_mapping(mapping) ==
    LET names == Distinct([ i \in 1..Len(mapping) |-> mapping[i].new_name ])
        last(nm) == CHOOSE i \in 1..Len(mapping) :
                        /\ mapping[i].new_name = nm
                        /\ \A j \in (i + 1)..Len(mapping) : mapping[j].new_name # nm
    IN  [ k \in 1..Len(names) |-> << names[k], mapping[last(names[k])].recommended_type >> ]

\* One pass of the for loop: the table and the columns reported as not converted.
LoopState(df, reported, raised) == [ df |-> df, reported |-> reported, raised |-> raised ]

\* Mutant: no try/except around the conversion, the exception ends the call.
convert_step_unguarded(st, col_name, dtype) ==
    IF col_name \notin Columns(st.df) THEN st
    ELSE LET r == convert_column(col_name, st.df.col[col_name], dtype)
         IN  IF r.ok THEN LoopState(SetColumn(st.df, col_name, r.column), st.reported, st.raised)
             ELSE LoopState(st.df, st.reported, TRUE)

\* One column of the loop, lines 58-80: try the conversion, report a failure.
convert_step(st, col_name, dtype) ==
    IF col_name \notin Columns(st.df) THEN st
    ELSE LET r == convert_column(col_name, st.df.col[col_name], dtype)
         IN  IF r.ok THEN LoopState(SetColumn(st.df, col_name, r.column), st.reported, st.raised)
             ELSE LoopState(st.df, st.reported \cup {col_name}, st.raised)

RECURSIVE convert_loop(_, _, _)
convert_loop(st, tm, i) ==
    IF i > Len(tm) \/ st.raised THEN st
    ELSE convert_loop(convert_step(st, tm[i][1], tm[i][2]), tm, i + 1)

\* apply_data_types(df, mapping_df), data_processing.py.
apply_data_types(df, mapping) ==
    convert_loop(LoopState(df, {}, FALSE), type_mapping(mapping), 1)

\* One column of the loop of the script's own apply_data_types (data_analysis.py):
\* no ordered-Likert branch.
script_convert_step(st, col_name, dtype) ==
    IF col_name \notin Columns(st.df) THEN st
    ELSE LET r == convert_by_type(st.df.col[col_name], dtype)
         IN  IF r.ok THEN LoopState(SetColumn(st.df, col_name, r.column), st.reported, st.raised)
             ELSE LoopState(st.df, st.reported \cup {col_name}, st.raised)

RECURSIVE script_convert_loop(_, _, _)
script_convert_loop(st, tm, i) ==
    IF i > Len(tm) \/ st.raised THEN st
    ELSE script_convert_loop(script_convert_step(st, tm[i][1], tm[i][2]), tm, i + 1)

\* apply_data_types(df, mapping_df), data_analysis.py.
script_apply_data_types(df, mapping) ==
    script_convert_loop(LoopState(df, {}, FALSE), type_mapping(mapping), 1)

-----------------------------------------------------------------------------
(* Brand palette (visualization.py, get_brand_colors).                     *)
(* A line of the styling document is a sequence of characters.             *)

HexDigits ==
    { "0", "1", "2", "3", "4", "5", "6", "7", "8", "9",
      "a", "b", "c", "d", "e", "f", "A", "B", "C", "D", "E", "F" }

\* "HEX:" in line
has_marker(line) ==
    \E i \in 1..(Len(line) - 3) : SubSeq(line, i, i + 3) = << "H", "E", "X", ":" >>

AllHex(line, from, to) == to <= Len(line) /\ \A k \in from..to : line[k] \in HexDigits

\* The match of #(?:[0-9a-fA-F]{3}){1,2} starting at position i, or <<>>:
\* six digits when six follow the "#", else three.
hex_match_at(line, i) ==
    IF line[i] = "#" /\ AllHex(line, i + 1, i + 3)
    THEN IF AllHex(line, i + 4, i + 6) THEN SubSeq(line, i, i + 6) ELSE SubSeq(line, i, i + 3)
    ELSE << >>

\* re.search: the leftmost match, or Nothing.
re_search(line) ==
    LET starts == { i \in 1..Len(line) : hex_match_at(line, i) # << >> }
    IN  IF starts = {} THEN Nothing
        ELSE Some(hex_match_at(line, CHOOSE i \in starts : \A j \in starts : i <= j))

\* Mutant: every line is searched, marker or not.
RECURSIVE collect_colors_every_line(_, _)
collect_colors_every_line(lines, i) ==
    IF i = 0 THEN << >>
    ELSE LET before == collect_colors_every_line(lines, i - 1)
             match == re_search(lines[i])
         IN  IF match # Nothing THEN Append(before, The(match)) ELSE before

\* The loop over the lines, lines 16-20: the colours appended so far.
RECURSIVE collect_colors(_, _)
collect_colors(lines, i) ==
    IF i = 0 THEN << >>
    ELSE LET before == collect_colors(lines, i - 1)
             match == re_search(lines[i])
         IN  IF has_marker(lines[i]) /\ match # Nothing
             THEN Append(before, The(match)) ELSE before

PaletteSize == 5

\* get_brand_colors(file_path): the palette, or Nothing (Python's None), and
\* whether the warning was printed.
get_brand_colors(document) ==
    IF document = Nothing
    THEN [ colors |-> Nothing, warned |-> TRUE ]
    ELSE LET colors == collect_colors(The(document), Len(The(document)))
         IN  [ colors |-> IF colors # << >> THEN Some(Take(colors, PaletteSize)) ELSE Nothing,
               warned |-> FALSE ]

DeepOceanBlue == << "#", "0", "0", "3", "E", "7", "E" >>
ChampionshipGold == << "#", "F", "F", "B", "8", "1", "C" >>
LightGreenish == << "#", "D", "9", "E", "A", "D", "3" >>

\* Truth value of a palette: None and the empty list are false.
Truthy(brand_colors) == brand_colors # Nothing /\ The(brand_colors) # << >>

default_color(brand_colors) ==
    IF Truthy(brand_colors) THEN The(brand_colors)[1] ELSE DeepOceanBlue

\* Mutant: the highlight taken from the second entry.
highlight_color_second(brand_colors) ==
    IF Truthy(brand_colors) /\ Len(The(brand_colors)) > 2
    THEN The(brand_colors)[2] ELSE ChampionshipGold

highlight_color(brand_colors) ==
    IF Truthy(brand_colors) /\ Len(The(brand_colors)) > 2
    THEN The(brand_colors)[3] ELSE ChampionshipGold

secondary_color(brand_colors) ==
    IF Truthy(brand_colors) /\ Len(The(brand_colors)) > 1
    THEN The(brand_colors)[2] ELSE LightGreenish

-----------------------------------------------------------------------------
(* Counting (pandas).                                                      *)

is_categorical(column) == column.dtype = "category"

\* Series.value_counts(): the values with their counts, most frequent first.
\* A categorical column counts every category, those that do not occur too;
\* any other column counts the values that occur.  Equal counts keep the order
\* of the categories, or of first appearance.
Counted(labels, vals) ==
    [ i \in 1..Len(labels) |-> [ label |-> labels[i], count |-> Occurrences(vals, labels[i]) ] ]

value_counts(column) ==
    LET labels == IF is_categorical(column) THEN column.categories
                  ELSE Distinct(NonMissing(column.vals))
        counted == Counted(labels, column.vals)
    IN  SortBy(counted, [ e \in Range(counted) |-> 0 - e.count ])

Labels(counts) == [ i \in 1..Len(counts) |-> counts[i].label ]

\* Series.dropna(), then the number of rows holding the label.
CountOf(column, label) == Occurrences(NonMissing(column.vals), label)

\* value_counts().sort_index(): by category position for a categorical column,
\* by value otherwise.
sorted_index(column) ==
    IF is_categorical(column) THEN column.categories
    ELSE SortBy(Distinct(NonMissing(column.vals)), CellRank)

\* Index.union of the two sorted indexes.
index_union(column1, column2) ==
    LET first == sorted_index(column1)
        second == sorted_index(column2)
        both == Distinct(first \o second)
    IN  IF is_categorical(column1) /\ is_categorical(column2)
           /\ column1.categories = column2.categories
        THEN first
        ELSE SortBy(both, CellRank)

\* counts.reindex(all_categories, fill_value=0)
reindex(counts, all_categories) ==
    [ i \in 1..Len(all_categories) |->
        IF \E k \in 1..Len(counts) : counts[k].label = all_categories[i]
        THEN counts[CHOOSE k \in 1..Len(counts) : counts[k].label = all_categories[i]].count
        ELSE 0 ]

-----------------------------------------------------------------------------
(* Files and figures.  A path is a sequence of components; a file is a     *)
(* directory path and a name.                                              *)

ChartPath == << "charts" >>

File(dir, name) == [ dir |-> dir, name |-> name ]

Front(s) == SubSeq(s, 1, Len(s) - 1)

\* os.path.join(chart_path, file_name): chart_name holds the components of the
\* name the caller gave ("2025/ages" is << "2025", "ages" >>).
chart_file(chart_name, default_name) ==
    IF chart_name # Nothing /\ The(chart_name) # << >>
    THEN File(ChartPath \o Front(The(chart_name)),
              << "named", The(chart_name)[Len(The(chart_name))] >>)
    ELSE File(ChartPath, default_name)

\* if not os.path.exists(chart_path): os.makedirs(chart_path)
makedirs(existing) == existing \cup { ChartPath }

Bars(kind, labels, heights, heights2, colors) ==
    [ kind |-> kind, labels |-> labels, heights |-> heights, heights2 |-> heights2,
      colors |-> colors ]

\* What a request leaves behind: the directories, the files, the open figures,
\* the chart it drew if it got that far, how it ended and what it reported.
Effect(d, f, figs, drawn, result, reported) ==
    [ dirs |-> d, files |-> f, figures |-> figs, chart |-> drawn,
      result |-> result, reported |-> reported ]

Env(d, f, figs, document) == [ dirs |-> d, files |-> f, figures |-> figs, doc |-> document ]

\* plt.figure(...), the drawing, plt.savefig(file_path), plt.close():
\* savefig raises when the directory of the file does not exist, and the
\* close on the line after it is then not reached.
draw_and_save(env, d, drawn, file) ==
    LET opened == env.figures + 1
    IN  IF file.dir \in d
        THEN Effect(d, env.files \cup {file}, opened - 1, Some(drawn), "returned", {})
        ELSE Effect(d, env.files, opened, Some(drawn), "raised", {})

\* The order of the bars, lines 69-77.
bar_order(column) ==
    IF is_categorical(column) /\ column.ordered
    THEN column.categories
    ELSE Labels(value_counts(column))

\* The palette of the bars, lines 81-87.
bar_palette(order, highlight_bar, brand_colors) ==
    IF highlight_bar # Nothing /\ The(highlight_bar) \in Range(order)
    THEN [ i \in 1..Len(order) |->
             IF order[i] = The(highlight_bar) THEN highlight_color(brand_colors)
             ELSE default_color(brand_colors) ]
    ELSE [ i \in 1..Len(order) |-> default_color(brand_colors) ]

\* create_bar_chart(df, column_name, highlight_bar=..., chart_name=...)
create_bar_chart(env, df, column_name, highlight_bar, chart_name) ==
    IF column_name \notin Columns(df)
    THEN Effect(env.dirs, env.files, env.figures, Nothing, "skipped", {column_name})
    ELSE LET d == makedirs(env.dirs)
             brand_colors == get_brand_colors(env.doc).colors
             column == df.col[column_name]
             order == bar_order(column)
             palette == bar_palette(order, highlight_bar, brand_colors)
             heights == [ i \in 1..Len(order) |-> CountOf(column, order[i]) ]
         IN  draw_and_save(env, d, Bars("bar", order, heights, << >>, palette),
                           chart_file(chart_name, << "distribution", column_name >>))

\* create_comparison_chart(df, column1, column2, chart_name=...)
create_comparison_chart(env, df, column1, column2, chart_name) ==
    IF column1 \notin Columns(df) \/ column2 \notin Columns(df)
    THEN Effect(env.dirs, env.files, env.figures, Nothing, "skipped",
                { column1, column2 } \ Columns(df))
    ELSE LET d == makedirs(env.dirs)
             brand_colors == get_brand_colors(env.doc).colors
             all_categories == index_union(df.col[column1], df.col[column2])
             column1_counts == reindex(value_counts(df.col[column1]), all_categories)
             column2_counts == reindex(value_counts(df.col[column2]), all_categories)
         IN  draw_and_save(env, d,
                           Bars("comparison", all_categories, column1_counts, column2_counts,
                                << default_color(brand_colors), secondary_color(brand_colors) >>),
                           chart_file(chart_name, << "comparison", column1, column2 >>))

\* df[reason_columns.keys()].sum(): the sum of each column, missing cells skipped.
RECURSIVE SumCells(_)
SumCells(vals) ==
    IF vals = << >> THEN 0
    ELSE (IF vals[1] \in NumberCells THEN CellNumber[vals[1]] ELSE 0) + SumCells(Tail(vals))

\* .sum().sort_values(ascending=False), then the index mapped to the labels.
reason_counts(df, reason_columns) ==
    LET summed == [ i \in 1..Len(reason_columns) |->
                      [ label |-> reason_columns[i][2],
                        count |-> SumCells(df.col[reason_columns[i][1]].vals) ] ]
    IN  SortBy(summed, [ e \in Range(summed) |-> 0 - e.count ])

\* The length of a bar: the mean of the observations of its category, kept as
\* their total and their number.
Mean(total, observations) == [ total |-> total, observations |-> observations ]

RECURSIVE SumOver(_, _)
SumOver(x, positions) ==
    IF positions = {} THEN 0
    ELSE LET i == CHOOSE j \in positions : TRUE
         IN  x[i] + SumOver(x, positions \ {i})

\* sns.barplot(x=reason_counts.values, y=reason_counts.index): one bar per
\* distinct entry of y, in order of first appearance, its length the mean of
\* the entries of x given for it.
barplot(x, y) ==
    LET categories == Distinct(y)
        given(label) == { i \in 1..Len(y) : y[i] = label }
    IN  [ k \in 1..Len(categories) |->
            [ label |-> categories[k],
              length |-> Mean(SumOver(x, given(categories[k])),
                              Cardinality(given(categories[k]))) ] ]

\* create_reasons_summary_chart(df, reason_columns, chart_name=...):
\* reason_columns is the dict as a sequence of <<column, label>>.  Selecting a
\* column the table lacks raises KeyError on the first line.
create_reasons_summary_chart(env, df, reason_columns, chart_name) ==
    IF \E i \in 1..Len(reason_columns) : reason_columns[i][1] \notin Columns(df)
    THEN Effect(env.dirs, env.files, env.figures, Nothing, "raised", {})
    ELSE LET counts == reason_counts(df, reason_columns)
             brand_colors == get_brand_colors(env.doc).colors
             drawn == barplot([ i \in 1..Len(counts) |-> counts[i].count ], Labels(counts))
         IN  draw_and_save(env, makedirs(env.dirs),
                           Bars("reasons", Labels(drawn),
                                [ i \in 1..Len(drawn) |-> drawn[i].length ], << >>,
                                << default_color(brand_colors) >>),
                           chart_file(chart_name, << "reasons_summary" >>))

\* create_bar_chart of data_analysis.py: bars always by frequency, the file
\* always named after the column.
script_create_bar_chart(env, df, column_name, highlight_bar) ==
    IF column_name \notin Columns(df)
    THEN Effect(env.dirs, env.files, env.figures, Nothing, "skipped", {column_name})
    ELSE LET d == makedirs(env.dirs)
             brand_colors == get_brand_colors(env.doc).colors
             column == df.col[column_name]
             order == Labels(value_counts(column))
             colors == bar_palette(order, highlight_bar, brand_colors)
             heights == [ i \in 1..Len(order) |-> CountOf(column, order[i]) ]
         IN  draw_and_save(env, d, Bars("bar", order, heights, << >>, colors),
                           File(ChartPath, << "distribution", column_name >>))

-----------------------------------------------------------------------------
(* Inputs: survey rows after renaming, and column mappings.                *)

Row(age, rating, desired, a, b) ==
    [ age_category |-> age, rating_accessibility |-> rating,
      desired_masters_season_extension |-> desired, a |-> a, b |-> b ]

RowSet ==
    { Row("27-40", "3", "Yes", "1", "0"),
      Row("18-26", "5", "No", "0", "0"),
      Row("61+", NaN, "Yes", "1", "1"),
      Row(NaN, "1", NaN, "0", "1") }

AllColumns ==
    { "age_category", "rating_accessibility", "desired_masters_season_extension", "a", "b" }

\* The table read from a sheet holding these rows with these columns.
RawTable(rows, names) ==
    Table(Len(rows), [ c \in names |-> RawColumn([ i \in 1..Len(rows) |-> rows[i][c] ]) ])

RawTables == { RawTable(rows, AllColumns) : rows \in SeqsUpTo(RowSet, MaxRows) \ { <<>> } }

Entry(old, new, type) == [ old_name |-> old, new_name |-> new, recommended_type |-> type ]

TypeNames == { "category", "Int8", "float64", "bogus" }

\* "club" is mapped but is no column of the tables above.
MappedNames == << "age_category", "rating_accessibility", "club" >>
OldNames == << "Q1", "Q2", "Q3" >>

MappingOf(choice) ==
    LET kept == KeptPositions([ i \in 1..Len(MappedNames) |-> choice[i] # None ],
                              1, Len(MappedNames))
    IN  [ k \in 1..Len(kept) |-> Entry(OldNames[kept[k]], MappedNames[kept[k]], choice[kept[k]]) ]

Mappings ==
    { MappingOf(choice) : choice \in [ 1..Len(MappedNames) -> TypeNames \cup {None} ] }

Call(op, target, args, result, reported) ==
    [ op |-> op, target |-> target, args |-> args, result |-> result, reported |-> reported ]

NoCall == Call(None, None, << >>, None, {})

-----------------------------------------------------------------------------
(* Calls of the type coercion on a table object (the table is changed in   *)
(* place: df[col_name] = ...).                                             *)

ApplyDataTypes(ref) ==
    /\ ref \in DOMAIN heap
    /\ mapping_df # Nothing
    /\ LET st == apply_data_types(heap[ref], The(mapping_df))
       IN  /\ heap' = [ heap EXCEPT ![ref] = st.df ]
           /\ outcome' = Call("apply_data_types", ref, << >>,
                              IF st.raised THEN "raised" ELSE "returned", st.reported)
    /\ UNCHANGED << survey_data, masters_df, mapping_df, doc, dirs, files, figures, chart,
                    returned, disk, pc >>

ScriptApplyDataTypes(ref) ==
    /\ ref \in DOMAIN heap
    /\ mapping_df # Nothing
    /\ LET st == script_apply_data_types(heap[ref], The(mapping_df))
       IN  /\ heap' = [ heap EXCEPT ![ref] = st.df ]
           /\ outcome' = Call("script_apply_data_types", ref, << >>,
                              IF st.raised THEN "raised" ELSE "returned", st.reported)
    /\ UNCHANGED << survey_data, masters_df, mapping_df, doc, dirs, files, figures, chart,
                    returned, disk, pc >>

TypesInit ==
    /\ \E t \in RawTables : heap = [ r \in {"t1"} |-> t ]
    /\ survey_data = "t1"
    /\ masters_df = None
    /\ \E m \in Mappings : mapping_df = Some(m)
    /\ doc = Nothing
    /\ dirs = {}
    /\ files = {}
    /\ figures = 0
    /\ chart = Nothing
    /\ returned = Nothing
    /\ outcome = NoCall
    /\ disk = [ data |-> Nothing, mapping |-> Nothing ]
    /\ pc = "library"

TypesNext ==
    \/ ApplyDataTypes("t1")
    \/ ScriptApplyDataTypes("t1")

SpecTypes == TypesInit /\ [][TypesNext]_vars

-----------------------------------------------------------------------------
(* Claims about the type coercion.                                         *)

MappedTo(mapping, name) == \E i \in 1..Len(mapping) : mapping[i].new_name = name

TypeOf(mapping, name) ==
    LET tm == type_mapping(mapping)
    IN  tm[CHOOSE k \in 1..Len(tm) : tm[k][1] = name][2]

FixedLikertOrder ==
    << "Strongly Disagree", "Disagree", "Neutral", "Agree", "Strongly Agree" >>

LikertLabel ==
    [ k \in { "1", "2", "3", "4", "5" } |->
        CASE k = "1" -> "Strongly Disagree"
          [] k = "2" -> "Disagree"
          [] k = "3" -> "Neutral"
          [] k = "4" -> "Agree"
          [] k = "5" -> "Strongly Agree" ]

\* A step that is a call of the coercion named op leaves every mapped Likert
\* column present in the table an ordered categorical with the fixed order,
\* each code k in 1..5 turned into the k-th label.
LikertStep(op) ==
    (outcome'.op = op) =>
        \A c \in ordered_likert_columns \cap Columns(heap[outcome'.target]) :
            MappedTo(The(mapping_df), c) =>
                LET old == heap[outcome'.target].col[c]
                    new == heap'[outcome'.target].col[c]
                IN  /\ new.dtype = "category"
                    /\ new.ordered
                    /\ new.categories = FixedLikertOrder
                    /\ \A i \in 1..Len(old.vals) :
                          old.vals[i] \in DOMAIN LikertLabel =>
                              new.vals[i] = LikertLabel[old.vals[i]]

\* C3 (as claimed): after apply_data_types, in data_processing.py and in
\* data_analysis.py alike, every mapped Likert column present in the table is an
\* ordered categorical with the fixed five-level order, whatever type the
\* mapping declares, and code k in 1..5 has become the label at position k-1.
C3_LikertAfterCoercion ==
    [][LikertStep("apply_data_types") /\ LikertStep("script_apply_data_types")]_vars

\* The same statement of data_processing.py's apply_data_types alone.
LikertAfterLibraryCoercion == [][LikertStep("apply_data_types")]_vars

\* The mapped columns present in the table whose conversion raises.
FailingColumns(df, mapping) ==
    { c \in Columns(df) :
        /\ MappedTo(mapping, c)
        /\ ~convert_column(c, df.col[c], TypeOf(mapping, c)).ok }

WithoutColumns(mapping, names) == SelectSeq(mapping, LAMBDA e : e.new_name \notin names)

\* C5: a call of apply_data_types (data_processing.py) returns normally; every
\* column whose conversion fails is reported and keeps its values and type; the
\* table is otherwise what the call yields with the failing columns not listed;
\* and no column is added for a mapped name the table lacks.
C5_FailureIsPerColumn ==
    [][ (outcome'.op = "apply_data_types") =>
          LET old == heap[outcome'.target]
              new == heap'[outcome'.target]
              failing == FailingColumns(old, The(mapping_df))
          IN  /\ outcome'.result = "returned"
              /\ outcome'.reported = failing
              /\ Columns(new) = Columns(old)
              /\ \A c \in failing : new.col[c] = old.col[c]
              /\ new = apply_data_types(old, WithoutColumns(The(mapping_df), failing)).df
              /\ \A c \in Columns(old) \ failing :
                    MappedTo(The(mapping_df), c) =>
                        new.col[c] = convert_column(c, old.col[c],
                                                    TypeOf(The(mapping_df), c)).column
      ]_vars

\* A call that reported age_category (first in the mapping) and still converted
\* rating_accessibility (listed after it).
C5_Witness ==
    /\ outcome.op = "apply_data_types"
    /\ outcome.result = "returned"
    /\ "age_category" \in outcome.reported
    /\ heap[outcome.target].n > 0
    /\ heap[outcome.target].col["age_category"].dtype = "object"
    /\ heap[outcome.target].col["rating_accessibility"].dtype = "category"

-----------------------------------------------------------------------------
(* Chart requests (visualization.py) on a table object.                    *)

CurrentEnv == Env(dirs, files, figures, doc)

\* The request's effect on the disk, the figures and the record of the call.
Request(op, ref, args, eff) ==
    /\ dirs' = eff.dirs
    /\ files' = eff.files
    /\ figures' = eff.figures
    /\ chart' = eff.chart
    /\ outcome' = Call(op, ref, args, eff.result, eff.reported)
    /\ UNCHANGED << heap, survey_data, masters_df, mapping_df, doc, returned, disk, pc >>

CreateBarChart(ref, column_name, highlight_bar, chart_name) ==
    /\ ref \in DOMAIN heap
    /\ figures < MaxFigures
    /\ Request("create_bar_chart", ref, << <<column_name>>, chart_name >>,
               create_bar_chart(CurrentEnv, heap[ref], column_name, highlight_bar, chart_name))

CreateComparisonChart(ref, column1, column2, chart_name) ==
    /\ ref \in DOMAIN heap
    /\ figures < MaxFigures
    /\ Request("create_comparison_chart", ref, << <<column1, column2>>, chart_name >>,
               create_comparison_chart(CurrentEnv, heap[ref], column1, column2, chart_name))

CreateReasonsSummaryChart(ref, reason_columns, chart_name) ==
    /\ ref \in DOMAIN heap
    /\ figures < MaxFigures
    /\ Request("create_reasons_summary_chart", ref,
               << [ i \in 1..Len(reason_columns) |-> reason_columns[i][1] ], chart_name,
                  reason_columns >>,
               create_reasons_summary_chart(CurrentEnv, heap[ref], reason_columns, chart_name))

GetBrandColors ==
    /\ LET r == get_brand_colors(doc)
       IN  /\ returned' = r.colors
           /\ outcome' = Call("get_brand_colors", None, << >>, "returned",
                              IF r.warned THEN { "Warning" } ELSE {})
    /\ UNCHANGED << heap, survey_data, masters_df, mapping_df, doc, dirs, files, figures,
                    chart, disk, pc >>

-----------------------------------------------------------------------------
(* Subgroup filter (data_analysis.py, lines 189-195).                      *)

masters_age_categories == { "27-40", "41-60", "61+" }

\* Series.isin(values): one truth value per row; a missing cell is in no list.
isin(column, values) == [ i \in 1..Len(column.vals) |-> column.vals[i] \in values ]

\* df[mask]: the rows the mask keeps, every column keeping its type and categories.
SelectRows(df, mask) ==
    LET kept == KeptPositions(mask, 1, df.n)
    IN  Table(Len(kept),
              [ c \in Columns(df) |->
                  Column(df.col[c].dtype, df.col[c].categories, df.col[c].ordered,
                         [ k \in 1..Len(kept) |-> df.col[c].vals[kept[k]] ]) ])

\* survey_data[survey_data["age_category"].isin(masters_age_categories)]
filter_rows(df) == SelectRows(df, isin(df.col["age_category"], masters_age_categories))

AllRefs == { "t1", "t2", "t3" }

\* Mutant: the rows are dropped from the source table itself, which is returned.
filter_in_place(h, src, fresh) ==
    [ heap |-> [ h EXCEPT ![src] = filter_rows(h[src]) ], ref |-> src ]

\* masters_df = <source>[...].copy(): a new table object holding the kept rows;
\* the source object is not touched.
filter_masters(h, src, fresh) ==
    [ heap |-> [ r \in DOMAIN h \cup {fresh} |-> IF r = fresh THEN filter_rows(h[src]) ELSE h[r] ],
      ref |-> fresh ]

\* Objects no name refers to are gone.
Collect(h, live) == [ r \in DOMAIN h \cap live |-> h[r] ]

\* masters_df = <src>[<src>["age_category"].isin(...)].copy(), src the object
\* named survey_data or masters_df.  Without the column the lookup raises KeyError.
FilterMasters(src) ==
    /\ src \in DOMAIN heap
    /\ IF "age_category" \in Columns(heap[src])
       THEN LET fresh == CHOOSE r \in AllRefs : r \notin { survey_data, masters_df }
                r == filter_masters(heap, src, fresh)
            IN  /\ masters_df' = r.ref
                /\ heap' = Collect(r.heap, { survey_data, r.ref })
                /\ outcome' = Call("filter_masters", src, << >>, "returned", {})
       ELSE /\ outcome' = Call("filter_masters", src, << >>, "raised", {})
            /\ UNCHANGED << heap, masters_df >>
    /\ UNCHANGED << survey_data, mapping_df, doc, dirs, files, figures, chart, returned,
                    disk, pc >>

\* Mappings used where tables are filtered and coerced again.
FilterMappings ==
    { << Entry("Q1", "age_category", "category"), Entry("Q2", "rating_accessibility", "Int8") >>,
      << Entry("Q1", "age_category", "float64") >>,
      << Entry("Q2", "rating_accessibility", "category"), Entry("Q1", "age_category", "Int8") >> }

FilterInit ==
    /\ \E t \in RawTables : heap = [ r \in {"t1"} |-> t ]
    /\ survey_data = "t1"
    /\ masters_df = None
    /\ \E m \in FilterMappings : mapping_df = Some(m)
    /\ doc = Nothing
    /\ dirs = {}
    /\ files = {}
    /\ figures = 0
    /\ chart = Nothing
    /\ returned = Nothing
    /\ outcome = NoCall
    /\ disk = [ data |-> Nothing, mapping |-> Nothing ]
    /\ pc = "library"

FilterNext ==
    \/ \E src \in { survey_data, masters_df } : FilterMasters(src)
    \/ \E ref \in { survey_data, masters_df } : ApplyDataTypes(ref)

SpecFilter == FilterInit /\ [][FilterNext]_vars

\* The rows of a table as records, in order.
RowsOf(df) == [ i \in 1..df.n |-> [ c \in Columns(df) |-> df.col[c].vals[i] ] ]

AllowList == { "27-40", "41-60", "61+" }

\* C6: a filter step leaves the source object as it was (same rows, same
\* columns), yields another object holding exactly the source rows whose
\* age_category is in the allow-list, in order; filtering the result again
\* yields the same rows; and a later coercion of the subset changes nothing in
\* the source table.
C6_FilterIdempotentNonMutating ==
    [][ /\ (outcome'.op = "filter_masters" /\ outcome'.result = "returned") =>
              LET src == outcome'.target
                  source == heap[src]
                  subset == heap'[masters_df']
              IN  /\ masters_df' # src
                  /\ src \in DOMAIN heap' => heap'[src] = source
                  /\ Columns(subset) = Columns(source)
                  /\ RowsOf(subset) =
                        SelectSeq(RowsOf(source), LAMBDA r : r["age_category"] \in AllowList)
                  /\ filter_rows(subset) = subset
        /\ (outcome'.op = "apply_data_types" /\ outcome'.target = masters_df
               /\ masters_df # None) =>
              /\ survey_data' = survey_data
              /\ heap'[survey_data] = heap[survey_data]
      ]_vars

\* The subset was taken from a table with rows inside and outside the
\* allow-list, filtered a second time, and then coerced.
C6_Witness ==
    /\ outcome.op = "apply_data_types"
    /\ outcome.target = masters_df
    /\ masters_df = "t3"
    /\ heap[masters_df].n = 1
    /\ heap[survey_data].n = 2
    /\ heap[masters_df].col["rating_accessibility"].dtype = "category"
    /\ heap[survey_data].col["rating_accessibility"].dtype # "category"

-----------------------------------------------------------------------------
(* The batch script (data_analysis.py, __main__).                          *)

\* The header of the response sheet: the original name of each column.
SheetName ==
    [ c \in AllColumns |->
        CASE c = "age_category" -> "Q1"
          [] c = "rating_accessibility" -> "Q2"
          [] c = "desired_masters_season_extension" -> "Q4"
          [] OTHER -> c ]

SheetTable(rows) ==
    Table(Len(rows),
          [ q \in { SheetName[c] : c \in AllColumns } |->
              RawColumn([ i \in 1..Len(rows) |->
                            rows[i][CHOOSE c \in AllColumns : SheetName[c] = q] ]) ])

SheetTables == { SheetTable(rows) : rows \in SeqsUpTo(RowSet, MaxRows) \ { <<>> } }

ScriptNames == << "age_category", "rating_accessibility", "desired_masters_season_extension" >>
ScriptTypes == { "category", "Int8" }

ScriptMappingOf(choice) ==
    LET kept == KeptPositions([ i \in 1..Len(ScriptNames) |-> choice[i] # None ],
                              1, Len(ScriptNames))
    IN  [ k \in 1..Len(kept) |->
            Entry(SheetName[ScriptNames[kept[k]]], ScriptNames[kept[k]], choice[kept[k]]) ]

ScriptMappings ==
    { ScriptMappingOf(choice) : choice \in [ 1..Len(ScriptNames) -> ScriptTypes \cup {None} ] }

\* survey_data.rename(columns=column_mapping, inplace=True), column_mapping the
\* dict old_name -> new_name: a column the dict does not name keeps its name.
rename(df, mapping) ==
    LET new_name(q) ==
            IF \E i \in 1..Len(mapping) : mapping[i].old_name = q
            THEN mapping[CHOOSE i \in 1..Len(mapping) :
                            /\ mapping[i].old_name = q
                            /\ \A j \in (i + 1)..Len(mapping) : mapping[j].old_name # q].new_name
            ELSE q
    IN  Table(df.n,
              [ c \in { new_name(q) : q \in Columns(df) } |->
                  df.col[CHOOSE q \in Columns(df) : new_name(q) = c] ])

ScriptInit ==
    /\ heap = << >>
    /\ survey_data = None
    /\ masters_df = None
    /\ mapping_df = Nothing
    /\ doc \in { Nothing, Some(<< << "H", "E", "X", ":", " ", "#", "0", "0", "3", "E", "7", "E" >> >>) }
    /\ dirs = {}
    /\ files = {}
    /\ figures = 0
    /\ chart = Nothing
    /\ returned = Nothing
    /\ outcome = NoCall
    /\ \E data \in { Nothing } \cup { Some(t) : t \in SheetTables },
          mapping \in { Nothing } \cup { Some(m) : m \in ScriptMappings } :
              disk = [ data |-> data, mapping |-> mapping ]
    /\ pc = "load_data"

\* survey_data = load_data(file_path): the table, or None with the error printed.
LoadData ==
    /\ pc = "load_data"
    /\ IF disk.data # Nothing
       THEN /\ heap' = [ r \in {"t1"} |-> The(disk.data) ]
            /\ survey_data' = "t1"
            /\ outcome' = Call("load_data", None, << >>, "returned", {})
       ELSE /\ UNCHANGED << heap, survey_data >>
            /\ outcome' = Call("load_data", None, << >>, "returned", { "Error" })
    /\ pc' = "load_column_mapping"
    /\ UNCHANGED << masters_df, mapping_df, doc, dirs, files, figures, chart, returned, disk >>

\* mapping_df = load_column_mapping(mapping_file_path), then the branch of
\* lines 178 and 211.
LoadColumnMapping ==
    /\ pc = "load_column_mapping"
    /\ mapping_df' = disk.mapping
    /\ outcome' = Call("load_column_mapping", None, << >>, "returned",
                       IF disk.mapping = Nothing THEN { "Error" } ELSE {})
    /\ pc' = IF survey_data # None /\ disk.mapping # Nothing THEN "rename"
             ELSE IF survey_data # None THEN "inspect"
             ELSE "done"
    /\ UNCHANGED << heap, survey_data, masters_df, doc, dirs, files, figures, chart,
                    returned, disk >>

\* Lines 180-184.
Rename ==
    /\ pc = "rename"
    /\ heap' = [ heap EXCEPT ![survey_data] = rename(heap[survey_data], The(mapping_df)) ]
    /\ outcome' = Call("rename", survey_data, << >>, "returned", {})
    /\ pc' = "apply_data_types"
    /\ UNCHANGED << survey_data, masters_df, mapping_df, doc, dirs, files, figures, chart,
                    returned, disk >>

\* Line 187.
ApplyTypes ==
    /\ pc = "apply_data_types"
    /\ LET st == script_apply_data_types(heap[survey_data], The(mapping_df))
       IN  /\ heap' = [ heap EXCEPT ![survey_data] = st.df ]
           /\ outcome' = Call("script_apply_data_types", survey_data, << >>,
                              IF st.raised THEN "raised" ELSE "returned", st.reported)
           /\ pc' = IF st.raised THEN "crashed" ELSE "filter"
    /\ UNCHANGED << survey_data, masters_df, mapping_df, doc, dirs, files, figures, chart,
                    returned, disk >>

\* Lines 190-206: survey_data["age_category"] raises KeyError when the table has
\* no such column, and nothing catches it.
Filter ==
    /\ pc = "filter"
    /\ IF "age_category" \in Columns(heap[survey_data])
       THEN LET r == filter_masters(heap, survey_data, "t2")
            IN  /\ masters_df' = r.ref
                /\ heap' = r.heap
                /\ outcome' = Call("filter_masters", survey_data, << >>, "returned", {})
                /\ pc' = "create_bar_chart"
       ELSE /\ outcome' = Call("filter_masters", survey_data, << >>, "raised", {})
            /\ pc' = "crashed"
            /\ UNCHANGED << heap, masters_df >>
    /\ UNCHANGED << survey_data, mapping_df, doc, dirs, files, figures, chart, returned, disk >>

\* Line 209.
Chart ==
    /\ pc = "create_bar_chart"
    /\ LET eff == script_create_bar_chart(CurrentEnv, heap[masters_df],
                                          "desired_masters_season_extension", Nothing)
       IN  /\ dirs' = eff.dirs
           /\ files' = eff.files
           /\ figures' = eff.figures
           /\ chart' = eff.chart
           /\ outcome' = Call("script_create_bar_chart", masters_df,
                              << << "desired_masters_season_extension" >>, Nothing >>,
                              eff.result, eff.reported)
           /\ pc' = IF eff.result = "raised" THEN "crashed" ELSE "done"
    /\ UNCHANGED << heap, survey_data, masters_df, mapping_df, doc, returned, disk >>

\* Lines 211-217: only the data loaded.
Inspect ==
    /\ pc = "inspect"
    /\ outcome' = Call("inspect", survey_data, << >>, "returned", {})
    /\ pc' = "done"
    /\ UNCHANGED << heap, survey_data, masters_df, mapping_df, doc, dirs, files, figures,
                    chart, returned, disk >>

ScriptNext ==
    \/ LoadData
    \/ LoadColumnMapping
    \/ Rename
    \/ ApplyTypes
    \/ Filter
    \/ Chart
    \/ Inspect

SpecScript == ScriptInit /\ [][ScriptNext]_vars

\* C4 (as claimed): when the response table loaded, the script never ends in an
\* unhandled exception, whatever the mapping file, the cell values and the
\* columns the table has.
C4_OnlyMissingDataEndsRun == (disk.data # Nothing) => (pc # "crashed")

-----------------------------------------------------------------------------
(* Styling documents.                                                      *)

\* HEX: #003E7E  (the usual line: the marker and a six-digit code)
LinePrimary ==
    << "H", "E", "X", ":", " ", "#", "0", "0", "3", "E", "7", "E" >>

\* HEX: #abcd, #FFB81C  (four hex digits after the #, then a second code)
LineTwoCodes ==
    << "H", "E", "X", ":", " ", "#", "a", "b", "c", "d", ",", " ", "#", "F", "F", "B", "8", "1", "C" >>

\* Accent #abc  (a code on a line without the marker)
LineNoMarker ==
    << "A", "c", "c", "e", "n", "t", " ", "#", "a", "b", "c" >>

\* HEX: n/a  (the marker without a code)
LineNoCode ==
    << "H", "E", "X", ":", " ", "n", "/", "a" >>

\* HEX:#1A2b3C4  (seven hex digits after the #)
LineSevenDigits ==
    << "H", "E", "X", ":", "#", "1", "A", "2", "b", "3", "C", "4" >>

LineSet == { LinePrimary, LineTwoCodes, LineNoMarker, LineNoCode, LineSevenDigits }

\* A document with three colours.
BrandDocument == << LinePrimary, LineNoMarker, LineTwoCodes, LineSevenDigits >>

-----------------------------------------------------------------------------
(* Chart requests on one table, with names that can and cannot be saved.   *)

ChartRowSet ==
    { Row("27-40", "3", "Yes", "1", "0"),
      Row("18-26", "5", "No", "0", "0"),
      Row(NaN, "1", NaN, "0", "1") }

\* "2025/ages": a name inside a directory nothing creates.
NestedName == Some(<< "2025", "ages" >>)

ReasonColumns == << << "a", "Cost" >>, << "b", "Time" >> >>

RequestTables ==
    { RawTable(rows, names) : rows \in SeqsUpTo(ChartRowSet, 1),
                              names \in { AllColumns, AllColumns \ { "b" } } }

RequestsInit ==
    /\ \E t \in RequestTables : heap = [ r \in {"t1"} |-> t ]
    /\ survey_data = "t1"
    /\ masters_df = None
    /\ mapping_df = Nothing
    /\ doc \in { Nothing, Some(BrandDocument) }
    /\ dirs = {}
    /\ files = {}
    /\ figures = 0
    /\ chart = Nothing
    /\ returned = Nothing
    /\ outcome = NoCall
    /\ disk = [ data |-> Nothing, mapping |-> Nothing ]
    /\ pc = "library"

RequestsNext ==
    \/ \E column_name \in { "desired_masters_season_extension", "b" },
          chart_name \in { Nothing, NestedName } :
            CreateBarChart("t1", column_name, Nothing, chart_name)
    \/ \E chart_name \in { Nothing, NestedName } :
            CreateComparisonChart("t1", "a", "b", chart_name)
    \/ \E chart_name \in { Nothing, NestedName } :
            CreateReasonsSummaryChart("t1", ReasonColumns, chart_name)

SpecRequests == RequestsInit /\ [][RequestsNext]_vars

ChartOps == { "create_bar_chart", "create_comparison_chart", "create_reasons_summary_chart" }

\* C1 (as claimed): every chart request, however it ends, leaves as many figures
\* open as were open when it started.
C1_FigureReleasedOnEveryPath ==
    [][ (outcome'.op \in ChartOps) => (figures' = figures) ]_vars

\* The columns a request names that the table lacks.
MissingColumns(call, h) == Range(call.args[1]) \ Columns(h[call.target])

\* C2 (as claimed): a request of any of the three chart operations that names a
\* column absent from the table returns without raising, reports the column,
\* and leaves the figures, the files and the directories as they were.
C2_MissingColumnIsSkipped ==
    [][ (outcome'.op \in ChartOps /\ MissingColumns(outcome', heap) # {}) =>
            /\ outcome'.result = "skipped"
            /\ outcome'.reported # {}
            /\ outcome'.reported \subseteq MissingColumns(outcome', heap)
            /\ chart' = Nothing
            /\ figures' = figures
            /\ files' = files
            /\ dirs' = dirs
      ]_vars

\* The same statement of the two operations that guard their columns.
MissingColumnIsSkippedWhereGuarded ==
    [][ (outcome'.op \in { "create_bar_chart", "create_comparison_chart" }
            /\ MissingColumns(outcome', heap) # {}) =>
            /\ outcome'.result = "skipped"
            /\ outcome'.reported = MissingColumns(outcome', heap)
            /\ figures' = figures
            /\ files' = files
            /\ dirs' = dirs
      ]_vars

-----------------------------------------------------------------------------
(* Charts of typed and filtered tables.                                    *)

ChartMapping ==
    << Entry("Q1", "age_category", "category"),
       Entry("Q2", "rating_accessibility", "Int8"),
       Entry("Q4", "desired_masters_season_extension", "category") >>

\* Tables as read, as typed by apply_data_types, and as typed and then filtered,
\* those with at least one row.
ChartTables ==
    LET raw == { RawTable(rows, AllColumns) : rows \in SeqsUpTo(ChartRowSet, ChartRows) \ { <<>> } }
        typed == { apply_data_types(t, ChartMapping).df : t \in raw }
    IN  { t \in raw \cup typed \cup { filter_rows(u) : u \in typed } : t.n > 0 }

ChartsInit ==
    /\ \E t \in ChartTables : heap = [ r \in {"t1"} |-> t ]
    /\ survey_data = "t1"
    /\ masters_df = None
    /\ mapping_df = Nothing
    /\ doc = Some(BrandDocument)
    /\ dirs = {}
    /\ files = {}
    /\ figures = 0
    /\ chart = Nothing
    /\ returned = Nothing
    /\ outcome = NoCall
    /\ disk = [ data |-> Nothing, mapping |-> Nothing ]
    /\ pc = "library"

ChartsNext ==
    \/ \E column_name \in { "rating_accessibility", "desired_masters_season_extension" },
          highlight_bar \in { Nothing, Some("Yes") } :
            CreateBarChart("t1", column_name, highlight_bar, Nothing)
    \/ \E pair \in { << "a", "b" >>,
                     << "rating_accessibility", "desired_masters_season_extension" >> } :
            CreateComparisonChart("t1", pair[1], pair[2], Nothing)
    \/ \E reason_columns \in { ReasonColumns, << ReasonColumns[2], ReasonColumns[1] >> } :
            CreateReasonsSummaryChart("t1", reason_columns, Nothing)

SpecCharts == ChartsInit /\ [][ChartsNext]_vars

\* The values that occur in a column, and the number of rows holding one.
Occurring(column) == Range(column.vals) \ { NaN }
RowCount(column, v) == Cardinality({ r \in 1..Len(column.vals) : column.vals[r] = v })

\* The categories a categorical column declares.
Declared(column) == IF column.dtype = "category" THEN Range(column.categories) ELSE {}

NoRepeats(labels) == Cardinality(Range(labels)) = Len(labels)

NonIncreasing(heights) == \A i \in 1..(Len(heights) - 1) : heights[i] >= heights[i + 1]

RequestedColumn(k) == heap[outcome.target].col[outcome.args[1][k]]

ComparisonDrawn == outcome.op = "create_comparison_chart" /\ outcome.result = "returned"

\* The comparison chart shows exactly these categories, one pair of bars each,
\* every bar as long as the number of rows of its column holding the category.
ComparisonShows(categories) ==
    LET drawn == The(chart)
    IN  /\ Range(drawn.labels) = categories
        /\ NoRepeats(drawn.labels)
        /\ \A i \in 1..Len(drawn.labels) :
              /\ drawn.heights[i] = RowCount(RequestedColumn(1), drawn.labels[i])
              /\ drawn.heights2[i] = RowCount(RequestedColumn(2), drawn.labels[i])

\* C7: the categories of a comparison chart are the union of the
\* values that occur in the two columns, each bar as high as the value's count in
\* its column, zero where the value does not occur in that column.
C7_ComparisonUnionOfOccurring ==
    ComparisonDrawn =>
        ComparisonShows(Occurring(RequestedColumn(1)) \cup Occurring(RequestedColumn(2)))

\* What create_comparison_chart draws instead: the values that occur in either
\* column together with every category a categorical column declares, occurring
\* or not (value_counts lists them with count 0); the bar heights are the
\* counts, zero where the value does not occur.
C7_ComparisonUnionOfCounted ==
    ComparisonDrawn =>
        ComparisonShows(Occurring(RequestedColumn(1)) \cup Occurring(RequestedColumn(2))
                        \cup Declared(RequestedColumn(1)) \cup Declared(RequestedColumn(2)))

\* A comparison with a category in both columns and a category in the first only.
C7_Witness ==
    /\ ComparisonDrawn
    /\ \E i, j \in 1..Len(The(chart).labels) :
          /\ The(chart).heights[i] > 0 /\ The(chart).heights2[i] = 0
          /\ The(chart).heights[j] > 0 /\ The(chart).heights2[j] > 0

BarDrawn == outcome.op = "create_bar_chart" /\ outcome.result = "returned"

IsLikertType(column) ==
    column.dtype = "category" /\ column.ordered /\ column.categories = FixedLikertOrder

\* The bar chart has one bar per label, as long as the number of rows holding
\* it; the five scale labels in order for a Likert column, else exactly the
\* given values, most frequent first.
BarChartShows(values) ==
    LET drawn == The(chart)
        column == RequestedColumn(1)
    IN  /\ NoRepeats(drawn.labels)
        /\ \A i \in 1..Len(drawn.labels) :
              drawn.heights[i] = RowCount(column, drawn.labels[i])
        /\ IF IsLikertType(column)
           THEN drawn.labels = FixedLikertOrder
           ELSE /\ Range(drawn.labels) = values
                /\ NonIncreasing(drawn.heights)

\* C10: the bar chart has one bar per value, as long as the value's count; the
\* five scale labels in order for a column of the Likert type; for a column that is not of the Likert type the bars are
\* the values that occur in it.
C10_BarsOfOccurringValues == BarDrawn => BarChartShows(Occurring(RequestedColumn(1)))

\* What create_bar_chart draws instead: for a column that is not of the Likert
\* type the bars are the values that occur in it and, if the column is
\* categorical, also its declared categories that do not occur, with bars of
\* length zero.
C10_BarsOfCountedValues ==
    BarDrawn => BarChartShows(Occurring(RequestedColumn(1)) \cup Declared(RequestedColumn(1)))

\* A chart of a column whose first row holds the less frequent value.
C10_Witness ==
    /\ BarDrawn
    /\ ~IsLikertType(RequestedColumn(1))
    /\ RequestedColumn(1).vals[1] = "No"
    /\ The(chart).labels = << "Yes", "No" >>
    /\ The(chart).heights = << 2, 1 >>

-----------------------------------------------------------------------------
(* Palettes of short documents, and the colours the charts take from them. *)

ColorsTable == RawTable(<< Row("27-40", "3", "Yes", "1", "0"), Row("18-26", "5", "No", "0", "0") >>,
                        AllColumns)

ColorsInit ==
    /\ heap = [ r \in {"t1"} |-> ColorsTable ]
    /\ survey_data = "t1"
    /\ masters_df = None
    /\ mapping_df = Nothing
    /\ doc \in { Nothing } \cup { Some(d) : d \in SeqsUpTo(LineSet, ShortDocLines) }
    /\ dirs = {}
    /\ files = {}
    /\ figures = 0
    /\ chart = Nothing
    /\ returned = Nothing
    /\ outcome = NoCall
    /\ disk = [ data |-> Nothing, mapping |-> Nothing ]
    /\ pc = "library"

ColorsNext ==
    \/ CreateBarChart("t1", "desired_masters_season_extension", Some("Yes"), Nothing)
    \/ CreateComparisonChart("t1", "a", "b", Nothing)
    \/ GetBrandColors

SpecColors == ColorsInit /\ [][ColorsNext]_vars

PaletteInit ==
    /\ heap = << >>
    /\ survey_data = None
    /\ masters_df = None
    /\ mapping_df = Nothing
    /\ doc \in { Nothing } \cup { Some(d) : d \in SeqsUpTo(LineSet, MaxLines) }
    /\ dirs = {}
    /\ files = {}
    /\ figures = 0
    /\ chart = Nothing
    /\ returned = Nothing
    /\ outcome = NoCall
    /\ disk = [ data |-> Nothing, mapping |-> Nothing ]
    /\ pc = "library"

PaletteNext == GetBrandColors

SpecPalette == PaletteInit /\ [][PaletteNext]_vars

\* The colour each line of LineSet contributes, read off the line: the first
\* "#" followed by three or six hex digits on a line holding "HEX:".
ExpectedCode(line) ==
    CASE line = LinePrimary -> Some(<< "#", "0", "0", "3", "E", "7", "E" >>)
      [] line = LineTwoCodes -> Some(<< "#", "a", "b", "c" >>)
      [] line = LineNoMarker -> Nothing
      [] line = LineNoCode -> Nothing
      [] line = LineSevenDigits -> Some(<< "#", "1", "A", "2", "b", "3", "C" >>)

RECURSIVE Extracted(_)
Extracted(lines) ==
    IF lines = << >> THEN << >>
    ELSE ExpectedCode(lines[1]) \o Extracted(Tail(lines))

\* The colours of the document on disk; none when there is no document.
DocumentColors == IF doc = Nothing THEN << >> ELSE Extracted(The(doc))

ExpectedDefault ==
    IF Len(DocumentColors) >= 1 THEN DocumentColors[1] ELSE << "#", "0", "0", "3", "E", "7", "E" >>
ExpectedSecondary ==
    IF Len(DocumentColors) >= 2 THEN DocumentColors[2] ELSE << "#", "D", "9", "E", "A", "D", "3" >>
ExpectedHighlight ==
    IF Len(DocumentColors) >= 3 THEN DocumentColors[3] ELSE << "#", "F", "F", "B", "8", "1", "C" >>

\* C8: whatever the styling document (absent, without colours, with fewer
\* than three), a chart request does not raise; the bars of a bar chart have
\* the default colour, the highlighted bar the highlight colour, and the two
\* series of a comparison the default and the secondary colour, each the
\* extracted colour at its position or else the fixed fallback.
C8_PaletteFallbacks ==
    /\ outcome.op \in { "create_bar_chart", "create_comparison_chart", "get_brand_colors" } =>
          outcome.result = "returned"
    /\ outcome.op = "create_bar_chart" =>
          \A i \in 1..Len(The(chart).labels) :
              The(chart).colors[i] =
                  IF The(chart).labels[i] = "Yes" THEN ExpectedHighlight ELSE ExpectedDefault
    /\ outcome.op = "create_comparison_chart" =>
          The(chart).colors = << ExpectedDefault, ExpectedSecondary >>

\* A bar chart drawn from a document with two colours: the default is the
\* first of them, the highlight the fallback.
C8_Witness ==
    /\ outcome.op = "create_bar_chart"
    /\ doc = Some(<< LineNoCode, LinePrimary, LineSevenDigits >>)
    /\ The(chart).labels = << "Yes", "No" >>
    /\ The(chart).colors = << << "#", "F", "F", "B", "8", "1", "C" >>, << "#", "0", "0", "3", "E", "7", "E" >> >>

PaletteReturned == outcome.op = "get_brand_colors"

\* C9 (as claimed): for a document that exists the result is the sequence of
\* the first colour code of each "HEX:" line, in order, cut to five entries;
\* for an absent document it is no palette, with a warning.
C9_PaletteIsFirstFive ==
    PaletteReturned =>
        /\ outcome.result = "returned"
        /\ IF doc = Nothing
           THEN returned = Nothing /\ outcome.reported = { "Warning" }
           ELSE returned = Some(Take(DocumentColors, 5)) /\ outcome.reported = {}

\* C9 (amended): as claimed, except that a document that exists and yields no
\* colour code gives no palette (None, without a warning), not an empty sequence.
C9_PaletteIsFirstFiveOrNone ==
    PaletteReturned =>
        /\ outcome.result = "returned"
        /\ IF doc = Nothing
           THEN returned = Nothing /\ outcome.reported = { "Warning" }
           ELSE /\ returned = IF DocumentColors = << >> THEN Nothing
                              ELSE Some(Take(DocumentColors, 5))
                /\ outcome.reported = {}

\* Six lines with a colour each: the sixth colour is cut.
C9_Witness ==
    /\ PaletteReturned
    /\ doc = Some(<< LineTwoCodes, LinePrimary, LineSevenDigits, LinePrimary, LineTwoCodes,
                     LineSevenDigits >>)
    /\ Len(The(returned)) = 5
    /\ The(returned)[1] = << "#", "a", "b", "c" >>
    /\ The(returned)[5] = << "#", "a", "b", "c" >>

-----------------------------------------------------------------------------
(* The summary chart of reason columns on tables of 0/1 indicators.         *)

IndicatorRowSet ==
    { Row("27-40", "3", "Yes", a, b) : a \in { "0", "1" }, b \in { "0", "1" } }

ReasonLabels == { "Cost", "Time" }

\* The dicts of reason columns: one or both indicator columns, in either
\* order of the keys, each with a label of the caller's choice.
ReasonDicts ==
    { << << "a", l >> >> : l \in ReasonLabels }
    \cup { << << "a", l >>, << "b", m >> >> : l \in ReasonLabels, m \in ReasonLabels }
    \cup { << << "b", m >>, << "a", l >> >> : l \in ReasonLabels, m \in ReasonLabels }

ReasonTables ==
    { RawTable(rows, AllColumns) : rows \in SeqsUpTo(IndicatorRowSet, ChartRows) \ { <<>> } }

ReasonsInit ==
    /\ \E t \in ReasonTables : heap = [ r \in {"t1"} |-> t ]
    /\ survey_data = "t1"
    /\ masters_df = None
    /\ mapping_df = Nothing
    /\ doc = Some(BrandDocument)
    /\ dirs = {}
    /\ files = {}
    /\ figures = 0
    /\ chart = Nothing
    /\ returned = Nothing
    /\ outcome = NoCall
    /\ disk = [ data |-> Nothing, mapping |-> Nothing ]
    /\ pc = "library"

ReasonsNext ==
    \E reason_columns \in ReasonDicts : CreateReasonsSummaryChart("t1", reason_columns, Nothing)

SpecReasons == ReasonsInit /\ [][ReasonsNext]_vars

ReasonsDrawn == outcome.op = "create_reasons_summary_chart" /\ outcome.result = "returned"

SuppliedReasons == outcome.args[3]

\* The sum of the values of a column of the table the chart was asked of.
ColumnSum(name) == SumCells(heap[outcome.target].col[name].vals)

\* The bar is as long as the sum: its mean is the sum itself.
AsLongAs(length, sum) == length.total = sum * length.observations

\* The chart has one bar per reason column, labelled with the column's
\* supplied reason and as long as the column's sum, longest first.
OneBarPerReason ==
    LET drawn == The(chart)
        reasons == SuppliedReasons
    IN  /\ Len(drawn.labels) = Len(reasons)
        /\ \E at \in [ 1..Len(reasons) -> 1..Len(drawn.labels) ] :
              /\ \A i, j \in 1..Len(reasons) : at[i] = at[j] => i = j
              /\ \A i \in 1..Len(reasons) :
                    /\ drawn.labels[at[i]] = reasons[i][2]
                    /\ AsLongAs(drawn.heights[at[i]], ColumnSum(reasons[i][1]))
        /\ \A i \in 1..(Len(drawn.heights) - 1) :
              drawn.heights[i].total * drawn.heights[i + 1].observations
                  >= drawn.heights[i + 1].total * drawn.heights[i].observations

\* C11: the summary chart of any 0/1 indicator columns with any supplied labels
\* has exactly one bar per reason column, labelled with the column's supplied
\* reason, as long as the sum of the column's values, the bars in descending
\* order of length.
C11_OneBarPerReasonColumn == ReasonsDrawn => OneBarPerReason

DistinctLabels(reasons) ==
    \A i, j \in 1..Len(reasons) : reasons[i][2] = reasons[j][2] => i = j

\* What holds of create_reasons_summary_chart: the same, for reason columns
\* whose supplied labels differ from one another.
OneBarPerDistinctReason == (ReasonsDrawn /\ DistinctLabels(SuppliedReasons)) => OneBarPerReason

\* a = [1, 0, 1] and b = [0, 0, 1] with the labels Cost and Time: Cost with 2
\* first, then Time with 1.
CostThenTime ==
    /\ ReasonsDrawn
    /\ heap[outcome.target].col["a"].vals = << "1", "0", "1" >>
    /\ heap[outcome.target].col["b"].vals = << "0", "0", "1" >>
    /\ SuppliedReasons = << << "b", "Time" >>, << "a", "Cost" >> >>
    /\ The(chart).labels = << "Cost", "Time" >>
    /\ The(chart).heights = << Mean(2, 1), Mean(1, 1) >>

\* Both columns under the one label Cost: a single bar, as long as the mean of
\* the two sums.
OneBarForTwoColumns ==
    /\ ReasonsDrawn
    /\ Len(SuppliedReasons) = 2
    /\ The(chart).labels = << "Cost" >>
    /\ The(chart).heights = << Mean(3, 2) >>

=============================================================================
